---- MODULE Spec2Model ----
(***************************************************************************)
(* GPNet ML service (ml-service/app): the runtime decision pipeline.       *)
(*                                                                         *)
(* State: the feature schema held by FeatureExtractor, the artifact files  *)
(* under MODELS_DIR, the position of the offline training run that writes  *)
(* them, the UCRegistry cache, the requests in flight and the response of  *)
(* the request handled last.                                               *)
(*                                                                         *)
(* Scheduling: the four scoring endpoints are coroutines (async def)       *)
(* whose bodies contain no await, served by one uvicorn event loop, so a   *)
(* handler runs from its first statement to its response without another   *)
(* handler running in between.  Several requests can be in flight at the   *)
(* same time (accepted, waiting for the loop); the training run is another *)
(* process and interleaves with the handlers file by file.                 *)
(*                                                                         *)
(* Numbers: a calibrated probability is an integer number of thousandths;  *)
(* the probabilities handed to a policy function are in ten-thousandths,   *)
(* which makes the fixed splits (x 0.6, x 0.4, x 0.3, x 0.7) exact.        *)
(***************************************************************************)
EXTENDS Integers, Sequences, FiniteSets, TLC

VARIABLES schema, argsortTies, storage, trainPc, registry, reads, pending, arrived, last, hist

vars == <<schema, argsortTies, storage, trainPc, registry, reads, pending, arrived, last, hist>>

\* Python's None.
None == "None"

----------------------------------------------------------------------------
(* Bounds of the model *)

\* Requests accepted over a run.
MaxRequests == 2

----------------------------------------------------------------------------
(* Sequences *)

Range(s) == {s[i] : i \in 1..Len(s)}

RECURSIVE SumSeq(_)
SumSeq(s) == IF s = <<>> THEN 0 ELSE Head(s) + SumSeq(Tail(s))

IndexOf(s, e) == CHOOSE i \in 1..Len(s) : s[i] = e

----------------------------------------------------------------------------
(* config.py *)

UC1_HIGH_THRESHOLD == 7500
UC1_MEDIUM_THRESHOLD == 4000
UC7_QUARANTINE_THRESHOLD == 8000
UC8_QUARANTINE_THRESHOLD == 8500
UC11_WORK_THRESHOLD == 7500
UC11_UNCLEAR_LOW == 4000
UC11_UNCLEAR_HIGH == 7400
UC12_HIGH_RISK_THRESHOLD == 7000
UC12_MEDIUM_RISK_THRESHOLD == 4000
UC13_HIGH_RISK_THRESHOLD == 7000
UC13_MEDIUM_RISK_THRESHOLD == 4000

MODEL_VERSION == "v1.0"

\* The eleven phrases, each a sequence of characters.
LEGAL_THREAT_KEYWORDS ==
    << <<"l","a","w","y","e","r">>,
       <<"a","t","t","o","r","n","e","y">>,
       <<"l","e","g","a","l"," ","a","c","t","i","o","n">>,
       <<"s","o","l","i","c","i","t","o","r">>,
       <<"d","e","f","a","m","a","t","i","o","n">>,
       <<"p","r","i","v","a","c","y"," ","c","o","m","p","l","a","i","n","t">>,
       <<"d","i","s","c","r","i","m","i","n","a","t","i","o","n">>,
       <<"o","m","b","u","d","s","m","a","n">>,
       <<"t","r","i","b","u","n","a","l">>,
       <<"s","u","e">>,
       <<"l","a","w","s","u","i","t">> >>

----------------------------------------------------------------------------
(* The wired use-cases and their artifacts *)

\* The use-cases with an endpoint in main.py, in the order train_models.main
\* trains them.
TrainOrder == <<"uc_1", "uc_7", "uc_12", "uc_13">>

UCs == Range(TrainOrder)

\* What one train_ucN writes under MODELS_DIR/uc, in the order it writes it
\* ("dir" is the directory itself, made by mkdir).
TrainWrites ==
    <<"dir", "model.pkl", "calibrator.pkl", "explainer.pkl", "metrics.json",
      "feature_order.pkl">>

\* The four artifacts _load_uc reads.
Artifacts == {"model.pkl", "calibrator.pkl", "explainer.pkl", "feature_order.pkl"}

Complete(files) == "dir" \in files /\ Artifacts \subseteq files

\* list(X.columns): the columns of the use-case's training CSV without the
\* label column, as generate_synthetic.py names them.
TrainedFeatureOrder(uc) ==
    CASE uc = "uc_1" ->
           <<"days_open", "sla_breaches", "sentiment_compound",
             "injury_terms_count", "prior_escalations">>
      [] uc = "uc_13" ->
           <<"keyword_lawyer", "keyword_claim", "neg_sentiment_trend_7d",
             "diagnostic_delay_flag", "refused_duties_flag",
             "injury_severity_scale", "imaging_delay_days",
             "doctor_changes_count">>
      [] uc = "uc_7" ->
           <<"ocr_text_mismatch_rate", "doc_hash_repeat", "font_anomaly_flag",
             "provider_abn_match", "doctor_changes_count">>
      [] uc = "uc_12" ->
           <<"missed_appts_7d", "missed_appts_30d", "consecutive_missed_appts",
             "refused_duties_flag", "avg_response_latency_mins",
             "checkin_completion_rate", "communication_breakdown_flag">>

----------------------------------------------------------------------------
(* Python values and floats *)

\* A Python value of a request: a bool, an int, None or a str (a sequence of
\* characters).  Every value has the three fields, so any two compare.
PyInt(n) == [t |-> "int", n |-> n, s |-> <<>>]
PyBool(b) == [t |-> "bool", n |-> IF b THEN 1 ELSE 0, s |-> <<>>]
PyNone == [t |-> "none", n |-> 0, s |-> <<>>]
PyStr(chars) == [t |-> "str", n |-> 0, s |-> chars]

\* A numpy float64 entry: a number or nan.
FloatOf(n) == [nan |-> FALSE, v |-> n]
FNaN == [nan |-> TRUE, v |-> 0]

Digits == <<"0", "1", "2", "3", "4", "5", "6", "7", "8", "9">>

\* float(str): a string of decimal digits is a number, any other is not.
IsNumericStr(chars) == chars /= <<>> /\ \A i \in 1..Len(chars) : chars[i] \in Range(Digits)

RECURSIVE ParseDigits(_, _)
ParseDigits(chars, acc) ==
    IF chars = <<>> THEN acc
    ELSE ParseDigits(Tail(chars), 10 * acc + (IndexOf(Digits, Head(chars)) - 1))

\* Whether numpy can store the value in an array of dtype float.
Convertible(pv) == pv.t /= "str" \/ IsNumericStr(pv.s)

\* The float numpy stores for a convertible value: True is 1.0, False 0.0,
\* None is nan.
ToFloat(pv) ==
    CASE pv.t \in {"int", "bool"} -> FloatOf(pv.n)
      [] pv.t = "none" -> FNaN
      [] pv.t = "str" -> FloatOf(ParseDigits(pv.s, 0))

----------------------------------------------------------------------------
(* features.py *)

\* The type a schema gives a feature name.
TypeOf(name) ==
    IF name \in {"diagnostic_delay_flag", "refused_duties_flag", "doc_hash_repeat",
                 "font_anomaly_flag", "provider_abn_match",
                 "communication_breakdown_flag"}
    THEN "bool"
    ELSE IF name \in {"sentiment_compound", "neg_sentiment_trend_7d",
                      "ocr_text_mismatch_rate", "avg_response_latency_mins",
                      "checkin_completion_rate"}
    THEN "float"
    ELSE "int"

RECURSIVE Dedup(_, _)
Dedup(s, seen) ==
    IF s = <<>> THEN <<>>
    ELSE IF Head(s) \in seen THEN Dedup(Tail(s), seen)
    ELSE <<Head(s)>> \o Dedup(Tail(s), seen \cup {Head(s)})

\* feature_schema_v3.json is not among the sources.  The schemas considered:
\* the columns of all four training sets (each name once), and the columns of
\* one training set alone, for each of the three lengths a training set has
\* (5 for uc_1 and uc_7, 7 for uc_12, 8 for uc_13).
SchemaNames ==
    {TrainedFeatureOrder(uc) : uc \in {"uc_1", "uc_12", "uc_13"}}
    \cup {Dedup(TrainedFeatureOrder("uc_1") \o TrainedFeatureOrder("uc_13")
                \o TrainedFeatureOrder("uc_7") \o TrainedFeatureOrder("uc_12"), {})}

\* FeatureExtractor.__init__: self.features from a schema's names.
FeatureExtractor(names) == names

\* The default extract gives a feature of a type, before conversion.
DefaultOf(type) == IF type = "bool" THEN PyBool(FALSE) ELSE PyInt(0)

\* FeatureExtractor.extract(request_data, uc): request_data is a function from
\* keys to Python values; uc is not used by the code.  The result is the array,
\* or the ValueError numpy raises for a value it cannot convert.
extract(request_data, features) ==
    LET defaults == [f \in Range(features) |-> DefaultOf(TypeOf(f))]
        feature_dict ==
            [f \in Range(features) |->
                IF f \in DOMAIN request_data THEN request_data[f] ELSE defaults[f]]
    IN  IF \E i \in 1..Len(features) : ~Convertible(feature_dict[features[i]])
        THEN [err |-> "ValueError", array |-> <<>>]
        ELSE [err |-> None,
              array |-> [i \in 1..Len(features) |-> ToFloat(feature_dict[features[i]])]]

----------------------------------------------------------------------------
(* uc_registry.py: UCRegistry *)

\* A Python dict with no keys.
EmptyMap == [k \in {} |-> None]

\* UCRegistry.__init__: four empty maps and an empty loaded set.
UCRegistry ==
    [models |-> EmptyMap, calibrators |-> EmptyMap, explainers |-> EmptyMap,
     feature_orders |-> EmptyMap, loaded_ucs |-> {}]

\* joblib.load(uc_dir / file): a new object each time it is called.  rd counts
\* the calls per file of the use-case; the k-th object read from a file is
\* object k.  The feature order carries its names.
joblib_load(rd, uc, file) ==
    IF file = "feature_order.pkl"
    THEN [oid |-> rd[file] + 1, names |-> TrainedFeatureOrder(uc)]
    ELSE [oid |-> rd[file] + 1, names |-> <<>>]

\* One "if not path.exists(): raise ...; self.<map>[uc_id] = joblib.load(path)"
\* of _load_uc, skipped once an earlier statement has raised.  st is the
\* registry, the read counts of the use-case and the exception raised so far.
LoadArtifact(st, files, uc, map, file) ==
    IF st.err /= None THEN st
    ELSE IF file \notin files THEN [st EXCEPT !.err = "FileNotFoundError"]
    ELSE [reg |-> [st.reg EXCEPT ![map] = (uc :> joblib_load(st.rd, uc, file)) @@ @],
          rd |-> [st.rd EXCEPT ![file] = @ + 1],
          err |-> None]

\* The four loads of _load_uc in the order of the code, from the state st.
LoadArtifacts(st, files, uc) ==
    LoadArtifact(
        LoadArtifact(
            LoadArtifact(
                LoadArtifact(st, files, uc, "models", "model.pkl"),
                files, uc, "calibrators", "calibrator.pkl"),
            files, uc, "explainers", "explainer.pkl"),
        files, uc, "feature_orders", "feature_order.pkl")

\* "self._loaded_ucs.add(uc_id)", reached when no statement before it raised.
MarkLoaded(st, uc) ==
    IF st.err /= None THEN st ELSE [st EXCEPT !.reg.loaded_ucs = @ \cup {uc}]

\* The mutation of _load_uc that never adds the use-case to _loaded_ucs.
load_uc_never_marked(reg, rd, files, uc) ==
    IF uc \in reg.loaded_ucs THEN [reg |-> reg, rd |-> rd, err |-> None]
    ELSE IF "dir" \notin files THEN [reg |-> reg, rd |-> rd, err |-> "FileNotFoundError"]
    ELSE LoadArtifacts([reg |-> reg, rd |-> rd, err |-> None], files, uc)

\* The mutation of _load_uc that adds the use-case to _loaded_ucs before it
\* reads the first artifact.
load_uc_marked_first(reg, rd, files, uc) ==
    IF uc \in reg.loaded_ucs THEN [reg |-> reg, rd |-> rd, err |-> None]
    ELSE IF "dir" \notin files THEN [reg |-> reg, rd |-> rd, err |-> "FileNotFoundError"]
    ELSE LoadArtifacts([reg |-> [reg EXCEPT !.loaded_ucs = @ \cup {uc}], rd |-> rd,
                        err |-> None], files, uc)

\* UCRegistry._load_uc(uc_id), with files the content of MODELS_DIR/uc_id: the
\* registry and read counts after the call and the exception it raised.
load_uc(reg, rd, files, uc) ==
    IF uc \in reg.loaded_ucs THEN [reg |-> reg, rd |-> rd, err |-> None]
    ELSE IF "dir" \notin files THEN [reg |-> reg, rd |-> rd, err |-> "FileNotFoundError"]
    ELSE MarkLoaded(LoadArtifacts([reg |-> reg, rd |-> rd, err |-> None], files, uc), uc)

\* "return self.<map>[uc_id]" of a getter, after the state st its _load_uc
\* call left, unless that call raised.  val is the object returned.
Lookup(st, uc, map) ==
    IF st.err /= None THEN [reg |-> st.reg, rd |-> st.rd, err |-> st.err, val |-> None]
    ELSE IF uc \notin DOMAIN st.reg[map]
    THEN [reg |-> st.reg, rd |-> st.rd, err |-> "KeyError", val |-> None]
    ELSE [reg |-> st.reg, rd |-> st.rd, err |-> None, val |-> st.reg[map][uc]]

\* The mutation of a getter that reads the artifacts again on every call.
Getter_reloading(reg, rd, files, uc, map) ==
    Lookup(load_uc([reg EXCEPT !.loaded_ucs = @ \ {uc}], rd, files, uc), uc, map)

\* A getter of the registry: "if uc_id not in self._loaded_ucs:
\* self._load_uc(uc_id); return self.<map>[uc_id]".
Getter(reg, rd, files, uc, map) ==
    Lookup(IF uc \notin reg.loaded_ucs THEN load_uc(reg, rd, files, uc)
           ELSE [reg |-> reg, rd |-> rd, err |-> None],
           uc, map)

get_model(reg, rd, files, uc) == Getter(reg, rd, files, uc, "models")

get_calibrator(reg, rd, files, uc) == Getter(reg, rd, files, uc, "calibrators")

get_explainer(reg, rd, files, uc) == Getter(reg, rd, files, uc, "explainers")

get_feature_order(reg, rd, files, uc) == Getter(reg, rd, files, uc, "feature_orders")

\* The length test of validate_features on g, the result of its
\* get_feature_order call.
CheckLength(g, feature_array) ==
    IF g.err /= None THEN [reg |-> g.reg, rd |-> g.rd, err |-> g.err]
    ELSE IF Len(feature_array) /= Len(g.val.names)
    THEN [reg |-> g.reg, rd |-> g.rd, err |-> "ValueError: Feature count mismatch"]
    ELSE [reg |-> g.reg, rd |-> g.rd, err |-> None]

\* The mutation of validate_features that accepts every length.
validate_features_unchecked(reg, rd, files, uc, feature_array) ==
    LET g == get_feature_order(reg, rd, files, uc)
    IN  [reg |-> g.reg, rd |-> g.rd, err |-> g.err]

\* UCRegistry.validate_features(uc_id, feature_array).
validate_features(reg, rd, files, uc, feature_array) ==
    CheckLength(get_feature_order(reg, rd, files, uc), feature_array)

\* UCRegistry.is_loaded(uc_id).
is_loaded(reg, uc) == uc \in reg.loaded_ucs

\* UCRegistry.loaded_models().
loaded_models(reg) == reg.loaded_ucs

----------------------------------------------------------------------------
(* policy.py *)

UpperCase ==
    <<"A", "B", "C", "D", "E", "F", "G", "H", "I", "J", "K", "L", "M", "N", "O",
      "P", "Q", "R", "S", "T", "U", "V", "W", "X", "Y", "Z">>

LowerCase ==
    <<"a", "b", "c", "d", "e", "f", "g", "h", "i", "j", "k", "l", "m", "n", "o",
      "p", "q", "r", "s", "t", "u", "v", "w", "x", "y", "z">>

\* str.lower().
lower(chars) ==
    [i \in 1..Len(chars) |->
        IF chars[i] \in Range(UpperCase) THEN LowerCase[IndexOf(UpperCase, chars[i])]
        ELSE chars[i]]

\* "needle in hay" for two strings.
Contains(hay, needle) ==
    \E i \in 1..(Len(hay) - Len(needle) + 1) :
        SubSeq(hay, i, i + Len(needle) - 1) = needle

\* bool(value) for a Python value.
Truthy(pv) ==
    CASE pv.t \in {"int", "bool"} -> pv.n /= 0
      [] pv.t = "none" -> FALSE
      [] pv.t = "str" -> pv.s /= <<>>

\* The optional fields argument of check_guardrails: None, or a dict.
NoFields == [some |-> FALSE, map |-> EmptyMap]
Fields(m) == [some |-> TRUE, map |-> m]

\* dict.get(key) with the default None.
DictGet(m, key) == IF key \in DOMAIN m THEN m[key] ELSE PyNone

\* What check_guardrails returns when no rule fires.
NoGuardrail ==
    [force_decision |-> None, reason |-> "", keyword |-> <<>>, recommendation |-> None]

\* check_guardrails with the fields rule tested before the text rule.
check_guardrails_fields_first(text, fields) ==
    LET text_lower == lower(text.s)
        hits == {k \in 1..Len(LEGAL_THREAT_KEYWORDS) :
                    Contains(text_lower, LEGAL_THREAT_KEYWORDS[k])}
    IN  IF fields.some /\ DOMAIN fields.map /= {}
           /\ ~Truthy(DictGet(fields.map, "case_id"))
        THEN [force_decision |-> "Hold/Manual",
              reason |-> "guardrail:missing_case_id",
              keyword |-> <<>>,
              recommendation |-> "Missing case ID - cannot process"]
        ELSE IF Truthy(text) /\ hits /= {}
        THEN LET k == CHOOSE k \in hits : \A j \in hits : k <= j
             IN  [force_decision |-> "Hold/Manual",
                  reason |-> "guardrail:legal_threat:",
                  keyword |-> LEGAL_THREAT_KEYWORDS[k],
                  recommendation |-> "Legal threat detected - requires immediate manual review"]
        ELSE NoGuardrail

\* check_guardrails with the keyword list scanned from its end.
check_guardrails_last_listed(text, fields) ==
    LET text_lower == lower(text.s)
        hits == {k \in 1..Len(LEGAL_THREAT_KEYWORDS) :
                    Contains(text_lower, LEGAL_THREAT_KEYWORDS[k])}
    IN  IF Truthy(text) /\ hits /= {}
        THEN LET k == CHOOSE k \in hits : \A j \in hits : k >= j
             IN  [force_decision |-> "Hold/Manual",
                  reason |-> "guardrail:legal_threat:",
                  keyword |-> LEGAL_THREAT_KEYWORDS[k],
                  recommendation |-> "Legal threat detected - requires immediate manual review"]
        ELSE NoGuardrail

\* check_guardrails(text, fields): text is None or a str, fields is None or a
\* dict.  The reason of a legal threat is "guardrail:legal_threat:" followed by
\* keyword.
check_guardrails(text, fields) ==
    LET text_lower == lower(text.s)
        hits == {k \in 1..Len(LEGAL_THREAT_KEYWORDS) :
                    Contains(text_lower, LEGAL_THREAT_KEYWORDS[k])}
    IN  IF Truthy(text) /\ hits /= {}
        THEN LET k == CHOOSE k \in hits : \A j \in hits : k <= j
             IN  [force_decision |-> "Hold/Manual",
                  reason |-> "guardrail:legal_threat:",
                  keyword |-> LEGAL_THREAT_KEYWORDS[k],
                  recommendation |-> "Legal threat detected - requires immediate manual review"]
        ELSE IF fields.some /\ DOMAIN fields.map /= {}
                /\ ~Truthy(DictGet(fields.map, "case_id"))
        THEN [force_decision |-> "Hold/Manual",
              reason |-> "guardrail:missing_case_id",
              keyword |-> <<>>,
              recommendation |-> "Missing case ID - cannot process"]
        ELSE NoGuardrail

\* int(p * 100) for a probability p >= 0 in ten-thousandths.
IntTimes100(p) == p \div 100

\* uc1_policy with the medium band tested before the high one.
uc1_policy_medium_first(probs) ==
    IF probs.medium >= UC1_MEDIUM_THRESHOLD
    THEN <<"yellow", IntTimes100(probs.medium), "Review this week; medium priority">>
    ELSE IF probs.high >= UC1_HIGH_THRESHOLD
    THEN <<"red", IntTimes100(probs.high), "Review today; high priority case">>
    ELSE <<"green", IntTimes100(probs.low), "Routine monitoring; low priority">>

\* uc1_policy(probs): <<band, score, recommendation>>.
uc1_policy(probs) ==
    IF probs.high >= UC1_HIGH_THRESHOLD
    THEN <<"red", IntTimes100(probs.high), "Review today; high priority case">>
    ELSE IF probs.medium >= UC1_MEDIUM_THRESHOLD
    THEN <<"yellow", IntTimes100(probs.medium), "Review this week; medium priority">>
    ELSE <<"green", IntTimes100(probs.low), "Routine monitoring; low priority">>

\* uc7_policy with the threshold itself left below the quarantine.
uc7_policy_above_threshold(probs) ==
    IF probs.fraudulent > UC7_QUARANTINE_THRESHOLD
    THEN <<TRUE, "Fraudulent", "Quarantine document; request verified re-upload">>
    ELSE <<FALSE, "Legitimate", "Document appears legitimate">>

\* uc7_policy(probs): <<quarantine, decision, recommendation>>.
uc7_policy(probs) ==
    IF probs.fraudulent >= UC7_QUARANTINE_THRESHOLD
    THEN <<TRUE, "Fraudulent", "Quarantine document; request verified re-upload">>
    ELSE <<FALSE, "Legitimate", "Document appears legitimate">>

\* uc8_policy(probs): <<quarantine, decision, recommendation>>.
uc8_policy(probs) ==
    IF probs.phishing >= UC8_QUARANTINE_THRESHOLD
    THEN <<TRUE, "Phishing/Coached", "Quarantine and route to security review">>
    ELSE <<FALSE, "Legitimate", "Email appears legitimate">>

\* benchmarks.get(injury_type, 10), in weeks.
Benchmark(injury_type) ==
    CASE injury_type = "back" -> 8
      [] injury_type = "shoulder" -> 10
      [] injury_type = "knee" -> 12
      [] injury_type = "psychological" -> 16
      [] OTHER -> 10

\* uc9_policy with a recovery that equals 1.3 x the benchmark flagged as well.
uc9_policy_at_benchmark(predicted_weeks, injury_type) ==
    <<predicted_weeks, (predicted_weeks * 8) \div 10, (predicted_weeks * 12) \div 10,
      predicted_weeks >= Benchmark(injury_type) * 130,
      IF predicted_weeks >= Benchmark(injury_type) * 130
      THEN "Expedite imaging/specialist referral; review treatment plan"
      ELSE "On track with typical recovery timeline">>

\* uc9_policy(predicted_weeks, injury_type):
\* <<predicted_weeks, ci_lower, ci_upper, delayed, recommendation>>, the weeks
\* in hundredths of a week and a multiple of a tenth, which makes x 0.8, x 1.2
\* and benchmark x 1.3 exact.
uc9_policy(predicted_weeks, injury_type) ==
    <<predicted_weeks, (predicted_weeks * 8) \div 10, (predicted_weeks * 12) \div 10,
      predicted_weeks > Benchmark(injury_type) * 130,
      IF predicted_weeks > Benchmark(injury_type) * 130
      THEN "Expedite imaging/specialist referral; review treatment plan"
      ELSE "On track with typical recovery timeline">>

\* uc12_policy(probs, is_workcover):
\* <<band, entitlement_risk, evidence, recommendation>>.
uc12_policy(probs, is_workcover) ==
    IF probs.high_risk >= UC12_HIGH_RISK_THRESHOLD
    THEN <<"High Risk", TRUE,
           <<"Compile missed appointment log", "Document refused suitable duties",
             "Record communication delays">>,
           IF is_workcover
           THEN "Flag entitlement at risk; prepare evidence for insurer"
           ELSE "Generate reasonable directives checklist">>
    ELSE IF probs.medium_risk >= UC12_MEDIUM_RISK_THRESHOLD
    THEN <<"Medium Risk", FALSE, <<>>, "Increase monitoring; document all interactions">>
    ELSE <<"Compliant", FALSE, <<>>, "Worker is meeting obligations">>

\* uc13_policy(probs): <<band, recommendation>>.
uc13_policy(probs) ==
    IF probs.high_risk >= UC13_HIGH_RISK_THRESHOLD
    THEN <<"High Risk", "Likely to become WorkCover claim - early intervention critical">>
    ELSE IF probs.medium_risk >= UC13_MEDIUM_RISK_THRESHOLD
    THEN <<"Medium Risk", "Monitor closely; supportive communication recommended">>
    ELSE <<"Low Risk", "Unlikely to escalate to formal claim">>

\* dict.get(key, default).
DictGetOr(m, key, default) == IF key \in DOMAIN m THEN m[key] ELSE default

\* The missing list of uc4_policy after its three tests, each appending its
\* document: features.get(flag) is falsy for an absent key, None and False.
MissingDocuments(features) ==
    (IF ~Truthy(DictGet(features, "has_medical_cert"))
     THEN <<"Medical certificate">> ELSE <<>>)
    \o (IF ~Truthy(DictGet(features, "has_incident_report"))
        THEN <<"Incident report">> ELSE <<>>)
    \o (IF /\ ~Truthy(DictGet(features, "has_imaging_referral"))
           /\ DictGetOr(features, "injury_severity_scale", PyInt(0)).n >= 3
        THEN <<"Imaging referral">> ELSE <<>>)

\* uc4_policy with the imaging referral asked for at any severity.
uc4_policy_any_severity(probs, features) ==
    LET missing ==
            (IF ~Truthy(DictGet(features, "has_medical_cert"))
             THEN <<"Medical certificate">> ELSE <<>>)
            \o (IF ~Truthy(DictGet(features, "has_incident_report"))
                THEN <<"Incident report">> ELSE <<>>)
            \o (IF ~Truthy(DictGet(features, "has_imaging_referral"))
                THEN <<"Imaging referral">> ELSE <<>>)
    IN  <<IF missing /= <<>> THEN "Missing Critical" ELSE "Complete", missing,
          [text |-> "Request: ", joined |-> missing]>>

\* uc4_policy(probs, features): <<decision, missing, recommendation>>, the
\* recommendation of a non-empty list being "Request: " followed by the list
\* joined with ", ".
uc4_policy(probs, features) ==
    IF MissingDocuments(features) /= <<>>
    THEN <<"Missing Critical", MissingDocuments(features),
           [text |-> "Request: ", joined |-> MissingDocuments(features)]>>
    ELSE <<"Complete", <<>>,
           [text |-> "All critical documents present", joined |-> <<>>]>>

\* uc11_policy(probs): <<decision, recommendation>>.
uc11_policy(probs) ==
    IF probs.work_related >= UC11_WORK_THRESHOLD
    THEN <<"Work-Related", "Proceed with workers' compensation pathway">>
    ELSE IF /\ UC11_UNCLEAR_LOW <= probs.work_related
            /\ probs.work_related <= UC11_UNCLEAR_HIGH
    THEN <<"Unclear", "Request GP notes + witness statement for clarification">>
    ELSE <<"Non-Work", "Likely non-occupational injury">>

----------------------------------------------------------------------------
(* The fitted artifacts: opaque functions of the feature vector *)

\* Calibrated positive-class probabilities, in thousandths, that the model
\* lets a calibrator return.
ProbPoints == <<0, 250, 333, 334, 700, 749, 750, 759, 800, 1000>>

\* A number a fitted artifact's answer depends on: the vector and the use-case.
VectorHash(uc, x) ==
    SumSeq([i \in 1..Len(x) |-> IF x[i].nan THEN 0 ELSE x[i].v]) + 3 * IndexOf(TrainOrder, uc)

\* calibrator.predict_proba(features) for the one-row batch: the same answer
\* for the same vector; over the vectors, every probability of ProbPoints and
\* the call that raises.  probs[0, 1] is p1 and probs[0, 0] is p0.
predict_proba(uc, x) ==
    LET h == VectorHash(uc, x) % (Len(ProbPoints) + 1)
    IN  IF h = 0 THEN [err |-> "InferenceError", p0 |-> 0, p1 |-> 0]
        ELSE [err |-> None, p0 |-> 1000 - ProbPoints[h], p1 |-> ProbPoints[h]]

\* explainer.shap_values(features): one signed contribution per feature.
shap_values(uc, x) ==
    [i \in 1..Len(x) |-> (((IF x[i].nan THEN 0 ELSE x[i].v) + i) % 5) - 2]

----------------------------------------------------------------------------
(* uc_registry.py: predict and get_top_shap_features *)

\* What predict leaves when a statement of it raised err after the calls made:
\* st is the registry state the last getter left.
PredictRaised(st, err, calls) ==
    [reg |-> st.reg, rd |-> st.rd, err |-> err, p0 |-> 0, p1 |-> 0, shap |-> <<>>,
     calls |-> calls]

\* predict from "probs = calibrator.predict_proba(features)" on, e being the
\* result of get_explainer.
PredictWithExplainer(e, uc, features) ==
    LET pr == predict_proba(uc, features)
    IN  IF e.err /= None
        THEN PredictRaised(e, e.err, <<"validate_features", "get_calibrator",
                                       "get_explainer">>)
        ELSE IF pr.err /= None
        THEN PredictRaised(e, pr.err, <<"validate_features", "get_calibrator",
                                        "get_explainer", "predict_proba">>)
        ELSE [reg |-> e.reg, rd |-> e.rd, err |-> None, p0 |-> pr.p0, p1 |-> pr.p1,
              shap |-> shap_values(uc, features),
              calls |-> <<"validate_features", "get_calibrator", "get_explainer",
                          "predict_proba", "shap_values">>]

\* predict from "explainer = self.get_explainer(uc_id)" on, c being the result
\* of get_calibrator.
PredictWithCalibrator(c, files, uc, features) ==
    IF c.err /= None
    THEN PredictRaised(c, c.err, <<"validate_features", "get_calibrator">>)
    ELSE PredictWithExplainer(get_explainer(c.reg, c.rd, files, uc), uc, features)

\* predict from "calibrator = self.get_calibrator(uc_id)" on, v being the
\* result of validate_features.
PredictValidated(v, files, uc, features) ==
    IF v.err /= None THEN PredictRaised(v, v.err, <<"validate_features">>)
    ELSE PredictWithCalibrator(get_calibrator(v.reg, v.rd, files, uc), files, uc, features)

\* UCRegistry.predict(uc_id, features): the registry and read counts after the
\* call, the exception it raised, the probabilities and the attributions, and
\* the calls it made in order.
predict(reg, rd, files, uc, features) ==
    PredictValidated(validate_features(reg, rd, files, uc, features), files, uc, features)

Abs(n) == IF n < 0 THEN -n ELSE n

\* np.argsort sorts with its default kind, quicksort, which numpy does not
\* promise to be stable: where it leaves equal entries depends on the build
\* (insertion below 16 entries keeps them in index order, a vectorised sorting
\* network need not).  argsortTies is what the running build does: equal
\* entries in index order, or in reverse index order.  Both builds are run with
\* the schema that serves case priority, the index-order build with the others.
TiesInOrder(i, j) == IF argsortTies = "index" THEN i <= j ELSE i >= j

\* np.argsort(a): the indices by ascending value.
RECURSIVE ArgSortFrom(_, _)
ArgSortFrom(a, left) ==
    IF left = {} THEN <<>>
    ELSE LET m == CHOOSE i \in left :
                    \A j \in left : a[i] < a[j] \/ (a[i] = a[j] /\ TiesInOrder(i, j))
         IN  <<m>> \o ArgSortFrom(a, left \ {m})

argsort(a) == ArgSortFrom(a, 1..Len(a))

\* s[::-1].
Reversed(s) == [i \in 1..Len(s) |-> s[Len(s) + 1 - i]]

\* s[:k].
Take(s, k) == SubSeq(s, 1, IF k < Len(s) THEN k ELSE Len(s))

\* FeatureExtractor.get_feature_labels().get(name, name), for the names of the
\* schemas considered.
LabelOf(name) ==
    CASE name = "days_open" -> "Days case open"
      [] name = "sla_breaches" -> "SLA breaches"
      [] name = "sentiment_compound" -> "Overall sentiment"
      [] name = "injury_terms_count" -> "Injury terms"
      [] name = "prior_escalations" -> "Prior escalations"
      [] name = "keyword_lawyer" -> "Lawyer mentions"
      [] name = "keyword_claim" -> "Claim mentions"
      [] name = "neg_sentiment_trend_7d" -> "Negative trend (7d)"
      [] name = "diagnostic_delay_flag" -> "Diagnostic delay"
      [] name = "refused_duties_flag" -> "Refused suitable duties"
      [] name = "injury_severity_scale" -> "Injury severity"
      [] name = "imaging_delay_days" -> "Imaging delay (days)"
      [] name = "doctor_changes_count" -> "Doctor changes"
      [] name = "ocr_text_mismatch_rate" -> "OCR mismatch rate"
      [] name = "doc_hash_repeat" -> "Duplicate document"
      [] name = "font_anomaly_flag" -> "Font anomaly"
      [] name = "provider_abn_match" -> "Provider ABN match"
      [] name = "missed_appts_7d" -> "Missed appointments (7d)"
      [] name = "missed_appts_30d" -> "Missed appointments (30d)"
      [] name = "consecutive_missed_appts" -> "Consecutive missed"
      [] name = "avg_response_latency_mins" -> "Response latency"
      [] name = "checkin_completion_rate" -> "Check-in completion"
      [] name = "communication_breakdown_flag" -> "Communication breakdown"
      [] OTHER -> name

\* get_top_shap_features from "feature_labels = ..." on, g being the result of
\* its get_feature_order call: the list of items (feature label, value,
\* contribution, and the index it came from); feature_names[idx] raises
\* IndexError for an index beyond the feature order.
TopFeatures(g, shap_vals, features, top_k) ==
    LET abs_shap == [i \in 1..Len(shap_vals) |-> Abs(shap_vals[i])]
        top_indices == Take(Reversed(argsort(abs_shap)), top_k)
    IN  IF g.err /= None THEN [reg |-> g.reg, rd |-> g.rd, err |-> g.err, top |-> <<>>]
        ELSE IF \E k \in 1..Len(top_indices) : top_indices[k] > Len(g.val.names)
        THEN [reg |-> g.reg, rd |-> g.rd, err |-> "IndexError", top |-> <<>>]
        ELSE [reg |-> g.reg, rd |-> g.rd, err |-> None,
              top |-> [k \in 1..Len(top_indices) |->
                         [feature |-> LabelOf(g.val.names[top_indices[k]]),
                          value |-> features[top_indices[k]],
                          shap_contribution |-> shap_vals[top_indices[k]],
                          index |-> top_indices[k]]]]

\* UCRegistry.get_top_shap_features(uc_id, shap_values, features, top_k): the
\* registry and read counts after the call, the exception raised, and the list.
get_top_shap_features(reg, rd, files, uc, shap_vals, features, top_k) ==
    TopFeatures(get_feature_order(reg, rd, files, uc), shap_vals, features, top_k)

----------------------------------------------------------------------------
(* main.py: the endpoints *)

\* top_k of every endpoint's call of get_top_shap_features.
TOP_K == 5

\* str.startswith.
StartsWith(chars, prefix) ==
    Len(chars) >= Len(prefix) /\ SubSeq(chars, 1, Len(prefix)) = prefix

\* score_case_priority with the negative class split 0.8 / 0.2.
CasePriorityProbs_wide_medium(p0, p1) ==
    [high |-> p1 * 10, medium |-> p0 * 8, low |-> p0 * 2]

\* score_case_priority's probs_dict from the calibrated probabilities
\* probs[0, 0] and probs[0, 1] in thousandths: the negative class split
\* 0.6 / 0.4, in ten-thousandths.
CasePriorityProbs(p0, p1) ==
    [high |-> p1 * 10, medium |-> p0 * 6, low |-> p0 * 4]

\* score_compliance with the ratios of the split exchanged.
ComplianceProbs_swapped(p0, p1) ==
    [high_risk |-> p1 * 10, medium_risk |-> p0 * 7, low_risk |-> p0 * 3]

\* score_compliance's probs_dict: the compliant class split 0.3 / 0.7.
ComplianceProbs(p0, p1) ==
    [high_risk |-> p1 * 10, medium_risk |-> p0 * 3, low_risk |-> p0 * 7]

\* score_claim_escalation with the ratios of the split exchanged.
ClaimEscalationProbs_swapped(p0, p1) ==
    [high_risk |-> p1 * 10, medium_risk |-> p0 * 6, low_risk |-> p0 * 4]

\* score_claim_escalation's probs_dict: the stable class split 0.4 / 0.6.
ClaimEscalationProbs(p0, p1) ==
    [high_risk |-> p1 * 10, medium_risk |-> p0 * 4, low_risk |-> p0 * 6]

\* is_workcover with two missed appointments counted as well.
IsWorkcover_from_two(request_dict) ==
    \/ StartsWith(DictGetOr(request_dict, "case_id", PyStr(<<>>)).s, <<"W", "C">>)
    \/ DictGetOr(request_dict, "missed_appts_7d", PyInt(0)).n >= 2

\* score_compliance's is_workcover:
\* request_dict.get("case_id", "").startswith("WC")
\*     or request_dict.get("missed_appts_7d", 0) > 2.
IsWorkcover(request_dict) ==
    \/ StartsWith(DictGetOr(request_dict, "case_id", PyStr(<<>>)).s, <<"W", "C">>)
    \/ DictGetOr(request_dict, "missed_appts_7d", PyInt(0)).n > 2

\* The fields of a response model that an endpoint does not set.
BlankResponse ==
    [status |-> 200, detail |-> "", error |-> None, model_version |-> MODEL_VERSION,
     band |-> None, decision |-> None, score |-> PyNone, probabilities |-> EmptyMap,
     recommendation |-> None, shap_top |-> <<>>, quarantine |-> FALSE,
     entitlement_at_risk |-> FALSE, evidence_log |-> <<>>]

\* The mutation of the except clause that answers 200 with a band.
PredictionFailed_with_band(err) ==
    [BlankResponse EXCEPT !.band = "green", !.error = err]

\* "except Exception as e: raise HTTPException(status_code=500,
\* detail=f'Prediction failed: {str(e)}')": error is the exception caught.
PredictionFailed(err) ==
    [BlankResponse EXCEPT !.status = 500, !.detail = "Prediction failed", !.error = err,
                          !.model_version = None]

\* What a handler leaves: the registry and read counts, the response, the
\* calls made in order and the feature vector it built.
Handled(reg, rd, resp, calls, features) ==
    [reg |-> reg, rd |-> rd, resp |-> resp, calls |-> calls, features |-> features]

\* The mutation of score_case_priority whose vector depends on the registry:
\* the request that loads uc_1 is scored without its days_open.
score_case_priority_cold(reg, rd, files, features, request_dict) ==
    LET ex == extract(IF "uc_1" \in reg.loaded_ucs THEN request_dict
                      ELSE [request_dict EXCEPT !["days_open"] = PyInt(0)], features)
        pr == predict(reg, rd, files, "uc_1", ex.array)
    IN  Handled(pr.reg, pr.rd,
                IF pr.err /= None THEN PredictionFailed(pr.err)
                ELSE [BlankResponse EXCEPT
                        !.band = uc1_policy([high |-> pr.p1 * 10, medium |-> pr.p0 * 6,
                                             low |-> pr.p0 * 4])[1]],
                <<"extract">> \o pr.calls, ex.array)

\* score_case_priority(request), request_dict being request.model_dump().
score_case_priority(reg, rd, files, features, request_dict) ==
    LET ex == extract(request_dict, features)
        pr == predict(reg, rd, files, "uc_1", ex.array)
        probs_dict == CasePriorityProbs(pr.p0, pr.p1)
        pol == uc1_policy(probs_dict)
        tp == get_top_shap_features(pr.reg, pr.rd, files, "uc_1", pr.shap, ex.array, TOP_K)
    IN  IF ex.err /= None
        THEN Handled(reg, rd, PredictionFailed(ex.err), <<"extract">>, <<>>)
        ELSE IF pr.err /= None
        THEN Handled(pr.reg, pr.rd, PredictionFailed(pr.err), <<"extract">> \o pr.calls,
                     ex.array)
        ELSE IF tp.err /= None
        THEN Handled(tp.reg, tp.rd, PredictionFailed(tp.err),
                     <<"extract">> \o pr.calls \o <<"uc1_policy", "get_top_shap_features">>,
                     ex.array)
        ELSE Handled(tp.reg, tp.rd,
                     [BlankResponse EXCEPT !.band = pol[1], !.score = PyInt(pol[2]),
                                           !.probabilities = probs_dict,
                                           !.recommendation = pol[3],
                                           !.shap_top = tp.top],
                     <<"extract">> \o pr.calls \o <<"uc1_policy", "get_top_shap_features">>,
                     ex.array)

\* score_fraud(request).
score_fraud(reg, rd, files, features, request_dict) ==
    LET ex == extract(request_dict, features)
        pr == predict(reg, rd, files, "uc_7", ex.array)
        probs_dict == [fraudulent |-> pr.p1 * 10, legitimate |-> pr.p0 * 10]
        pol == uc7_policy(probs_dict)
        tp == get_top_shap_features(pr.reg, pr.rd, files, "uc_7", pr.shap, ex.array, TOP_K)
    IN  IF ex.err /= None
        THEN Handled(reg, rd, PredictionFailed(ex.err), <<"extract">>, <<>>)
        ELSE IF pr.err /= None
        THEN Handled(pr.reg, pr.rd, PredictionFailed(pr.err), <<"extract">> \o pr.calls,
                     ex.array)
        ELSE IF tp.err /= None
        THEN Handled(tp.reg, tp.rd, PredictionFailed(tp.err),
                     <<"extract">> \o pr.calls \o <<"uc7_policy", "get_top_shap_features">>,
                     ex.array)
        ELSE Handled(tp.reg, tp.rd,
                     [BlankResponse EXCEPT !.decision = pol[2], !.quarantine = pol[1],
                                           !.probabilities = probs_dict,
                                           !.recommendation = pol[3],
                                           !.shap_top = tp.top],
                     <<"extract">> \o pr.calls \o <<"uc7_policy", "get_top_shap_features">>,
                     ex.array)

\* score_compliance with the compliant mass split 0.3 / 0.3.
score_compliance_even_split(reg, rd, files, features, request_dict) ==
    LET ex == extract(request_dict, features)
        pr == predict(reg, rd, files, "uc_12", ex.array)
        probs_dict ==
            [high_risk |-> pr.p1 * 10, medium_risk |-> pr.p0 * 3, low_risk |-> pr.p0 * 3]
        case_id == IF "case_id" \in DOMAIN request_dict THEN request_dict["case_id"].s
                   ELSE <<>>
        missed == IF "missed_appts_7d" \in DOMAIN request_dict
                  THEN request_dict["missed_appts_7d"].n ELSE 0
        is_workcover == StartsWith(case_id, <<"W", "C">>) \/ missed > 2
        pol == uc12_policy(probs_dict, is_workcover)
        tp == get_top_shap_features(pr.reg, pr.rd, files, "uc_12", pr.shap, ex.array, TOP_K)
    IN  IF ex.err /= None
        THEN Handled(reg, rd, PredictionFailed(ex.err), <<"extract">>, <<>>)
        ELSE IF pr.err /= None
        THEN Handled(pr.reg, pr.rd, PredictionFailed(pr.err), <<"extract">> \o pr.calls,
                     ex.array)
        ELSE IF tp.err /= None
        THEN Handled(tp.reg, tp.rd, PredictionFailed(tp.err),
                     <<"extract">> \o pr.calls \o <<"uc12_policy", "get_top_shap_features">>,
                     ex.array)
        ELSE Handled(tp.reg, tp.rd,
                     [BlankResponse EXCEPT !.band = pol[1],
                                           !.probabilities = probs_dict,
                                           !.recommendation = pol[4],
                                           !.shap_top = tp.top,
                                           !.entitlement_at_risk = pol[2],
                                           !.evidence_log = pol[3]],
                     <<"extract">> \o pr.calls \o <<"uc12_policy", "get_top_shap_features">>,
                     ex.array)

\* score_compliance(request).
score_compliance(reg, rd, files, features, request_dict) ==
    LET ex == extract(request_dict, features)
        pr == predict(reg, rd, files, "uc_12", ex.array)
        probs_dict == ComplianceProbs(pr.p0, pr.p1)
        is_workcover == IsWorkcover(request_dict)
        pol == uc12_policy(probs_dict, is_workcover)
        tp == get_top_shap_features(pr.reg, pr.rd, files, "uc_12", pr.shap, ex.array, TOP_K)
    IN  IF ex.err /= None
        THEN Handled(reg, rd, PredictionFailed(ex.err), <<"extract">>, <<>>)
        ELSE IF pr.err /= None
        THEN Handled(pr.reg, pr.rd, PredictionFailed(pr.err), <<"extract">> \o pr.calls,
                     ex.array)
        ELSE IF tp.err /= None
        THEN Handled(tp.reg, tp.rd, PredictionFailed(tp.err),
                     <<"extract">> \o pr.calls \o <<"uc12_policy", "get_top_shap_features">>,
                     ex.array)
        ELSE Handled(tp.reg, tp.rd,
                     [BlankResponse EXCEPT !.band = pol[1],
                                           !.probabilities = probs_dict,
                                           !.recommendation = pol[4],
                                           !.shap_top = tp.top,
                                           !.entitlement_at_risk = pol[2],
                                           !.evidence_log = pol[3]],
                     <<"extract">> \o pr.calls \o <<"uc12_policy", "get_top_shap_features">>,
                     ex.array)

\* score_claim_escalation(request).
score_claim_escalation(reg, rd, files, features, request_dict) ==
    LET ex == extract(request_dict, features)
        pr == predict(reg, rd, files, "uc_13", ex.array)
        probs_dict == ClaimEscalationProbs(pr.p0, pr.p1)
        pol == uc13_policy(probs_dict)
        tp == get_top_shap_features(pr.reg, pr.rd, files, "uc_13", pr.shap, ex.array, TOP_K)
    IN  IF ex.err /= None
        THEN Handled(reg, rd, PredictionFailed(ex.err), <<"extract">>, <<>>)
        ELSE IF pr.err /= None
        THEN Handled(pr.reg, pr.rd, PredictionFailed(pr.err), <<"extract">> \o pr.calls,
                     ex.array)
        ELSE IF tp.err /= None
        THEN Handled(tp.reg, tp.rd, PredictionFailed(tp.err),
                     <<"extract">> \o pr.calls \o <<"uc13_policy", "get_top_shap_features">>,
                     ex.array)
        ELSE Handled(tp.reg, tp.rd,
                     [BlankResponse EXCEPT !.band = pol[1],
                                           !.probabilities = probs_dict,
                                           !.recommendation = pol[2],
                                           !.shap_top = tp.top],
                     <<"extract">> \o pr.calls \o <<"uc13_policy", "get_top_shap_features">>,
                     ex.array)

\* The endpoint registered for a use-case.
Endpoint(uc, reg, rd, files, features, request_dict) ==
    CASE uc = "uc_1" -> score_case_priority(reg, rd, files, features, request_dict)
      [] uc = "uc_7" -> score_fraud(reg, rd, files, features, request_dict)
      [] uc = "uc_12" -> score_compliance(reg, rd, files, features, request_dict)
      [] uc = "uc_13" -> score_claim_escalation(reg, rd, files, features, request_dict)

----------------------------------------------------------------------------
(* data_models.py: the requests *)

\* The free texts a fraud request carries as ocr_text: one without a phrase of
\* the list, and "my LAWYER".
CleanText == <<"o", "k">>
ThreatText == <<"m", "y", " ", "L", "A", "W", "Y", "E", "R">>

\* request.model_dump() of the use-case's request model: every field of the
\* model, the ones the request did not set at their defaults.  n is the value
\* of the one numeric field the model varies.
RequestDict(uc, case_id, n, text) ==
    CASE uc = "uc_1" ->
           [case_id |-> PyStr(case_id), latest_message_id |-> PyNone,
            days_open |-> PyInt(n), sla_breaches |-> PyInt(0),
            sentiment_compound |-> PyInt(0), injury_terms_count |-> PyInt(0),
            prior_escalations |-> PyInt(0)]
      [] uc = "uc_7" ->
           [case_id |-> PyStr(case_id), doc_id |-> PyStr(<<"d", "1">>),
            ocr_text |-> PyStr(text), ocr_text_mismatch_rate |-> PyInt(0),
            doc_hash_repeat |-> PyBool(FALSE), font_anomaly_flag |-> PyBool(FALSE),
            provider_abn_match |-> PyBool(TRUE), doctor_changes_count |-> PyInt(n)]
      [] uc = "uc_12" ->
           [case_id |-> PyStr(case_id), missed_appts_7d |-> PyInt(n),
            missed_appts_30d |-> PyInt(0), consecutive_missed_appts |-> PyInt(0),
            refused_duties_flag |-> PyBool(FALSE),
            avg_response_latency_mins |-> PyInt(0),
            checkin_completion_rate |-> PyInt(1),
            communication_breakdown_flag |-> PyBool(FALSE)]
      [] uc = "uc_13" ->
           [case_id |-> PyStr(case_id), keyword_lawyer |-> PyInt(n),
            keyword_claim |-> PyInt(0), neg_sentiment_trend_7d |-> PyInt(0),
            diagnostic_delay_flag |-> PyBool(FALSE),
            refused_duties_flag |-> PyBool(FALSE), injury_severity_scale |-> PyInt(1),
            imaging_delay_days |-> PyInt(0), doctor_changes_count |-> PyInt(0),
            psychosocial_flags_count |-> PyInt(0),
            communication_breakdown_flag |-> PyBool(FALSE)]

\* The request bodies the model sends to an endpoint, each the case identifier,
\* the value of the numeric field and the text: one that no guardrail rule
\* matches and one that a rule matches (the legal threat for a fraud request,
\* the empty case identifier for the others; its numeric field is above the 2
\* that score_compliance compares missed_appts_7d with).
Bodies(uc) ==
    IF uc = "uc_7"
    THEN {[case_id |-> <<"W", "C", "7">>, n |-> 0, text |-> CleanText],
          [case_id |-> <<"C", "1">>, n |-> 9, text |-> ThreatText]}
    ELSE {[case_id |-> <<"C", "1">>, n |-> 0, text |-> <<>>],
          [case_id |-> <<>>, n |-> 9, text |-> <<>>]}

\* The free text of a request: ocr_text where the request has one.
FreeText(request_dict) ==
    IF "ocr_text" \in DOMAIN request_dict THEN request_dict["ocr_text"] ELSE PyNone

----------------------------------------------------------------------------
(* The state machine *)

\* The bundle the registry holds for a use-case: the objects under its key in
\* the four maps (None where a map has no such key).
BundleOf(reg, uc) ==
    [m \in {"models", "calibrators", "explainers", "feature_orders"} |->
        IF uc \in DOMAIN reg[m] THEN reg[m][uc] ELSE [oid |-> 0, names |-> <<>>]]

\* The joblib.load calls counted in rd, over the four artifacts.
TotalReads(rd) ==
    rd["model.pkl"] + rd["calibrator.pkl"] + rd["explainer.pkl"] + rd["feature_order.pkl"]

\* The value of last before any operation.
NoRequest ==
    [kind |-> "none", uc |-> None, body |-> [case_id |-> <<>>, n |-> 0, text |-> <<>>],
     resp |-> BlankResponse, calls |-> <<>>, features |-> <<>>, afterLoad |-> FALSE,
     complete |-> FALSE, nreads |-> 0, first |-> FALSE, repeat |-> FALSE,
     bundle |-> BundleOf(UCRegistry, "uc_1"), loaded |-> {}]

\* The process starts: the schema is read, the registry is empty, nothing is
\* trained yet and no request has come.  hist keeps, per use-case, what the
\* requests handled so far did: the joblib.load calls per file made while every
\* artifact was in storage, the first-time requests that got the bundle then,
\* the bundles requests got, whether a load failed and whether one succeeded,
\* and the answer (response and vector) the first request with each body got
\* among the requests that got the bundle.
Init ==
    /\ schema \in {FeatureExtractor(names) : names \in SchemaNames}
    /\ argsortTies \in IF schema = FeatureExtractor(TrainedFeatureOrder("uc_1"))
                       THEN {"index", "reverse"} ELSE {"index"}
    /\ storage = [uc \in UCs |-> {}]
    /\ trainPc = 0
    /\ registry = UCRegistry
    /\ reads = [uc \in UCs |-> [f \in Artifacts |-> 0]]
    /\ pending = [uc \in UCs |-> [first |-> 0, later |-> 0]]
    /\ arrived = 0
    /\ last = NoRequest
    /\ hist = [uc \in UCs |->
                 [cleanReads |-> [f \in Artifacts |-> 0], racers |-> 0,
                  bundles |-> {}, failed |-> FALSE, everLoaded |-> FALSE,
                  answers |-> EmptyMap]]

\* train_models.main: train_uc1, train_uc7, train_uc12, train_uc13 in turn,
\* each writing its directory and files one after the other.
TrainStep ==
    /\ trainPc < Len(TrainOrder) * Len(TrainWrites)
    /\ LET uc == TrainOrder[(trainPc \div Len(TrainWrites)) + 1]
           file == TrainWrites[(trainPc % Len(TrainWrites)) + 1]
       IN  storage' = [storage EXCEPT ![uc] = @ \cup {file}]
    /\ trainPc' = trainPc + 1
    /\ UNCHANGED <<schema, argsortTies, registry, reads, pending, arrived, last, hist>>

\* A request for the endpoint of uc is accepted and waits for the event loop.
\* It is a first-time request when the use-case is not loaded at that moment.
Arrive(uc) ==
    /\ arrived < MaxRequests
    /\ arrived' = arrived + 1
    /\ pending' = IF is_loaded(registry, uc)
                  THEN [pending EXCEPT ![uc].later = @ + 1]
                  ELSE [pending EXCEPT ![uc].first = @ + 1]
    /\ UNCHANGED <<schema, argsortTies, storage, trainPc, registry, reads, last, hist>>

\* The event loop runs the handler of one waiting request to its response.
\* gotBundle: the handler reached the registry and no artifact was missing.
Handle(uc, class, body) ==
    /\ pending[uc][class] > 0
    /\ \E h \in {Endpoint(uc, registry, reads[uc], storage[uc], schema,
                           RequestDict(uc, body.case_id, body.n, body.text))} :
         \E gotBundle \in {"validate_features" \in Range(h.calls)
                              /\ h.resp.error /= "FileNotFoundError"} :
           /\ registry' = h.reg
           /\ reads' = [reads EXCEPT ![uc] = h.rd]
           /\ last' = [kind |-> "score", uc |-> uc, body |-> body,
                       resp |-> h.resp, calls |-> h.calls, features |-> h.features,
                       afterLoad |-> hist[uc].everLoaded,
                       complete |-> Complete(storage[uc]),
                       nreads |-> TotalReads(h.rd) - TotalReads(reads[uc]),
                       first |-> (class = "first"),
                       repeat |-> (body \in DOMAIN hist[uc].answers),
                       bundle |-> BundleOf(h.reg, uc), loaded |-> h.reg.loaded_ucs]
           /\ hist' = [hist EXCEPT
                 ![uc].cleanReads =
                     IF Complete(storage[uc])
                     THEN [f \in Artifacts |-> @[f] + (h.rd[f] - reads[uc][f])]
                     ELSE @,
                 ![uc].racers =
                     IF Complete(storage[uc]) /\ gotBundle /\ class = "first"
                     THEN @ + 1 ELSE @,
                 ![uc].bundles = IF gotBundle THEN @ \cup {BundleOf(h.reg, uc)} ELSE @,
                 ![uc].failed = @ \/ h.resp.error = "FileNotFoundError",
                 ![uc].everLoaded = @ \/ gotBundle,
                 ![uc].answers =
                     IF gotBundle /\ body \notin DOMAIN @
                     THEN (body :> [resp |-> h.resp, features |-> h.features]) @@ @
                     ELSE @]
    /\ pending' = [pending EXCEPT ![uc][class] = @ - 1]
    /\ UNCHANGED <<schema, argsortTies, storage, trainPc, arrived>>

\* health_check: GET /health reports loaded_models() and changes nothing.
Health ==
    /\ loaded_models(registry) = registry.loaded_ucs
    /\ UNCHANGED vars

Next ==
    \/ TrainStep
    \/ \E uc \in UCs : Arrive(uc)
    \/ \E uc \in UCs, class \in {"first", "later"} :
          \E body \in Bodies(uc) : Handle(uc, class, body)
    \/ Health

Spec == Init /\ [][Next]_vars

----------------------------------------------------------------------------
(* extract alone, over attribute mappings *)

\* The values an attribute mapping gives a key: ints, a bool, None, a string
\* of digits and a string that is no number.
AttributeValues ==
    {PyInt(0), PyInt(7), PyBool(TRUE), PyNone, PyStr(<<"1", "2">>),
     PyStr(<<"a", "b", "c">>)}

\* The keys: two feature names (each in some of the schemas considered, both
\* in the schema of all columns) and a key no schema has.
AttributeKeys == {"days_open", "refused_duties_flag", "claimant_name"}

\* The attribute mappings: every mapping from a subset of the keys to the
\* values, the empty mapping among them.
AttributeMappings ==
    UNION {[keys -> AttributeValues] : keys \in SUBSET AttributeKeys}

\* extractor.extract(request_data, uc) is called on a mapping; last keeps the
\* mapping and what the call returned or raised.
ExtractCall(request_data) ==
    /\ last' = [kind |-> "extract", request_data |-> request_data,
                result |-> extract(request_data, schema)]
    /\ UNCHANGED <<schema, argsortTies, storage, trainPc, registry, reads, pending, arrived, hist>>

NextExtract == \E request_data \in AttributeMappings : ExtractCall(request_data)

SpecExtract == Init /\ [][NextExtract]_vars

----------------------------------------------------------------------------
(* check_guardrails called on its own *)

\* Texts for check_guardrails: phrases of the list in either case, two phrases
\* where the one later in the list comes first in the text, a phrase inside a
\* word, and parts of a phrase that do not make it up.
TwoThreatsText == <<"s", "u", "e", " ", "m", "y", " ", "l", "a", "w", "y", "e", "r">>
TwoThreatsMixedText == <<"T", "r", "i", "b", "u", "n", "a", "l", " ", "o", "r", " ", "l", "e", "g", "a", "l", " ", "a", "c", "t", "i", "o", "n">>
IssueText == <<"i", "s", "s", "u", "e">>
AttorneyText == <<"A", "t", "t", "o", "r", "n", "e", "y">>
PrivacyText == <<"p", "r", "i", "v", "a", "c", "y">>
LawSuitText == <<"l", "a", "w", " ", "s", "u", "i", "t">>
DefamationText == <<"D", "E", "F", "A", "M", "A", "T", "I", "O", "N">>
OmbudsmanText == <<"o", "m", "b", "u", "d", "s", "m", "a", "n">>

GuardrailTexts ==
    {PyNone, PyStr(<<>>)} \cup
    {PyStr(t) : t \in {CleanText, ThreatText, TwoThreatsText, TwoThreatsMixedText,
                       IssueText, AttorneyText, PrivacyText, LawSuitText,
                       DefamationText, OmbudsmanText}}

\* The fields arguments: None, and the dicts with case_id absent, None, empty
\* or set, alone or beside another field.
GuardrailFields ==
    LET ids == {EmptyMap} \cup
               {[case_id |-> v] : v \in {PyNone, PyStr(<<>>), PyStr(<<"C", "1">>)}}
    IN  {NoFields} \cup {Fields(m) : m \in ids}
                   \cup {Fields(m @@ ("days_open" :> PyInt(3))) : m \in ids}

\* check_guardrails(text, fields) is called; last keeps the arguments and what
\* the call returned.
GuardrailCall(text, fields) ==
    /\ last' = [kind |-> "guardrail", text |-> text, fields |-> fields,
                result |-> check_guardrails(text, fields)]
    /\ UNCHANGED <<schema, argsortTies, storage, trainPc, registry, reads, pending, arrived, hist>>

NextGuardrail ==
    \E text \in GuardrailTexts : \E fields \in GuardrailFields : GuardrailCall(text, fields)

SpecGuardrail == Init /\ [][NextGuardrail]_vars

----------------------------------------------------------------------------
(* The policy functions called on their own *)

\* Probabilities in ten-thousandths around the thresholds of config.py, with
\* 0.745 among them.
PolicyProbabilities ==
    {0, 2500, 3999, 4000, 4001, 7400, 7401, 7450, 7499, 7500, 7590, 10000}

\* The probs argument of uc1_policy: a probability under each of its keys.
Uc1Probs ==
    [high : {0, 4000, 7499, 7500, 7590, 10000}, medium : {0, 3999, 4000, 7590, 10000},
     low : {2500, 9990}]

\* The probs argument of uc11_policy.
Uc11Probs == [work_related : PolicyProbabilities]

\* The probs argument of uc4_policy, which it does not read.
Uc4Probs == {[complete |-> 10000, missing |-> 0], [complete |-> 0, missing |-> 10000]}

\* The features argument of uc4_policy: each presence flag absent, False or
\* True (the first one None as well), and the injury severity absent or an int.
Uc4Features ==
    LET flag(name) ==
            {EmptyMap} \cup
            {name :> v : v \in {PyBool(FALSE), PyBool(TRUE)} \cup
                               (IF name = "has_medical_cert" THEN {PyNone} ELSE {})}
        severity == {EmptyMap} \cup {"injury_severity_scale" :> PyInt(n) : n \in {2, 3, 5}}
    IN  {a @@ b @@ c @@ d : a \in flag("has_medical_cert"), b \in flag("has_incident_report"),
                            c \in flag("has_imaging_referral"), d \in severity}

\* A policy function is called; last keeps the arguments and the tuple returned.
Uc1PolicyCall(probs) ==
    /\ last' = [kind |-> "uc1_policy", probs |-> probs, result |-> uc1_policy(probs)]
    /\ UNCHANGED <<schema, argsortTies, storage, trainPc, registry, reads, pending, arrived, hist>>

Uc4PolicyCall(probs, features) ==
    /\ last' = [kind |-> "uc4_policy", probs |-> probs, features |-> features,
                result |-> uc4_policy(probs, features)]
    /\ UNCHANGED <<schema, argsortTies, storage, trainPc, registry, reads, pending, arrived, hist>>

Uc11PolicyCall(probs) ==
    /\ last' = [kind |-> "uc11_policy", probs |-> probs, result |-> uc11_policy(probs)]
    /\ UNCHANGED <<schema, argsortTies, storage, trainPc, registry, reads, pending, arrived, hist>>

\* Probabilities in ten-thousandths around the two quarantine thresholds.
QuarantineProbabilities == {0, 7999, 8000, 8001, 8499, 8500, 8501, 10000}

\* The probs arguments of uc7_policy and uc8_policy.
Uc7Probs == {[fraudulent |-> p, legitimate |-> 10000 - p] : p \in QuarantineProbabilities}
Uc8Probs == {[phishing |-> p, legitimate |-> 10000 - p] : p \in QuarantineProbabilities}

\* The predicted_weeks argument of uc9_policy, in hundredths of a week: below
\* zero, zero, and on and a tenth either side of 1.3 x each benchmark.
PredictedWeeks ==
    {-100, 0, 50, 1030, 1040, 1050, 1290, 1300, 1310, 1550, 1560, 1570, 2070, 2080, 2090}

\* The injury_type argument of uc9_policy: the four of the table and another.
InjuryTypes == {"back", "shoulder", "knee", "psychological", "neck"}

Uc7PolicyCall(probs) ==
    /\ last' = [kind |-> "uc7_policy", probs |-> probs, result |-> uc7_policy(probs)]
    /\ UNCHANGED <<schema, argsortTies, storage, trainPc, registry, reads, pending, arrived, hist>>

Uc8PolicyCall(probs) ==
    /\ last' = [kind |-> "uc8_policy", probs |-> probs, result |-> uc8_policy(probs)]
    /\ UNCHANGED <<schema, argsortTies, storage, trainPc, registry, reads, pending, arrived, hist>>

Uc9PolicyCall(predicted_weeks, injury_type) ==
    /\ last' = [kind |-> "uc9_policy", predicted_weeks |-> predicted_weeks,
                injury_type |-> injury_type,
                result |-> uc9_policy(predicted_weeks, injury_type)]
    /\ UNCHANGED <<schema, argsortTies, storage, trainPc, registry, reads, pending, arrived, hist>>

NextPolicy ==
    \/ \E probs \in Uc1Probs : Uc1PolicyCall(probs)
    \/ \E probs \in Uc4Probs : \E features \in Uc4Features : Uc4PolicyCall(probs, features)
    \/ \E probs \in Uc11Probs : Uc11PolicyCall(probs)
    \/ \E probs \in Uc7Probs : Uc7PolicyCall(probs)
    \/ \E probs \in Uc8Probs : Uc8PolicyCall(probs)
    \/ \E predicted_weeks \in PredictedWeeks : \E injury_type \in InjuryTypes :
           Uc9PolicyCall(predicted_weeks, injury_type)

SpecPolicy == Init /\ [][NextPolicy]_vars

----------------------------------------------------------------------------
(* The banding of an endpoint, from the calibrated probabilities on *)

\* Calibrated positive-class probabilities probs[0, 1], in thousandths: the
\* ends, the band thresholds, the places where a sub-band would reach its
\* threshold, and a thousandth either side of them.
CalibratedProbabilities ==
    {0, 1, 250, 299, 300, 333, 334, 500, 571, 572, 600, 666, 667, 699, 700, 701,
     749, 750, 751, 999, 1000}

\* The compliance requests: case identifiers that start with "WC" and that do
\* not (lower case, "WC" further in, none), with 0, 2 or 3 missed appointments.
ComplianceRequests ==
    {RequestDict("uc_12", case_id, n, <<>>) :
        case_id \in {<<"W", "C", "7">>, <<"C", "1">>, <<"w", "c", "7">>, <<"A", "W", "C">>},
        n \in {0, 2, 3}}

\* score_case_priority from the probabilities predict returned to the policy
\* call: probs[0, 0] is 1 - probs[0, 1].
CasePriorityDecision(p1) ==
    /\ last' = [kind |-> "case_priority", p1 |-> p1,
                probs |-> CasePriorityProbs(1000 - p1, p1),
                result |-> uc1_policy(CasePriorityProbs(1000 - p1, p1))]
    /\ UNCHANGED <<schema, argsortTies, storage, trainPc, registry, reads, pending, arrived, hist>>

\* score_compliance from the probabilities predict returned to the policy call.
ComplianceDecision(p1, request_dict) ==
    /\ last' = [kind |-> "compliance", p1 |-> p1, request_dict |-> request_dict,
                probs |-> ComplianceProbs(1000 - p1, p1),
                is_workcover |-> IsWorkcover(request_dict),
                result |-> uc12_policy(ComplianceProbs(1000 - p1, p1),
                                       IsWorkcover(request_dict))]
    /\ UNCHANGED <<schema, argsortTies, storage, trainPc, registry, reads, pending, arrived, hist>>

\* score_claim_escalation from the probabilities predict returned to the
\* policy call.
ClaimEscalationDecision(p1) ==
    /\ last' = [kind |-> "claim_escalation", p1 |-> p1,
                probs |-> ClaimEscalationProbs(1000 - p1, p1),
                result |-> uc13_policy(ClaimEscalationProbs(1000 - p1, p1))]
    /\ UNCHANGED <<schema, argsortTies, storage, trainPc, registry, reads, pending, arrived, hist>>

NextBands ==
    \/ \E p1 \in CalibratedProbabilities : CasePriorityDecision(p1)
    \/ \E p1 \in CalibratedProbabilities : \E request_dict \in ComplianceRequests :
           ComplianceDecision(p1, request_dict)
    \/ \E p1 \in CalibratedProbabilities : ClaimEscalationDecision(p1)

SpecBands == Init /\ [][NextBands]_vars

----------------------------------------------------------------------------
(* Properties *)

MapNames == {"models", "calibrators", "explainers", "feature_orders"}

PolicyNames == {"uc1_policy", "uc7_policy", "uc12_policy", "uc13_policy"}

\* The handler of the last request called the registry.
Reached == last.kind = "score" /\ "validate_features" \in Range(last.calls)

\* The request handled last, as the endpoint saw it.
LastRequest == RequestDict(last.uc, last.body.case_id, last.body.n, last.body.text)

\* C1: for each use-case, over the requests handled while all its artifacts
\* were in storage, each artifact file was read at most once, exactly once as
\* soon as one request got the bundle, every request that got a bundle got the
\* same one with all four objects in it, and while an artifact is absent no
\* request has got a bundle.
C1_OneLoadOneBundle ==
    \A uc \in UCs :
        /\ \A f \in Artifacts : hist[uc].cleanReads[f] <= 1
        /\ hist[uc].everLoaded => \A f \in Artifacts : hist[uc].cleanReads[f] = 1
        /\ Cardinality(hist[uc].bundles) <= 1
        /\ \A b \in hist[uc].bundles : \A m \in MapNames : b[m].oid >= 1
        /\ ~Complete(storage[uc]) => hist[uc].bundles = {} /\ hist[uc].racers = 0

\* C1 witness: two requests that both arrived before the use-case was loaded
\* have both been handled and got the bundle.
C1_Raced == \E uc \in UCs : hist[uc].racers >= 2

\* C2: whenever a guardrail rule matches the request (a legal-threat phrase in
\* its free text, or a missing case identifier), no policy function is called
\* for it, and a response that is not a failure carries the forced Hold/Manual
\* decision.
C2_GuardrailBypassesPolicy ==
    (last.kind = "score"
        /\ check_guardrails(FreeText(LastRequest), Fields(LastRequest)).force_decision
             /= None)
    => /\ Range(last.calls) \cap PolicyNames = {}
       /\ last.resp.status = 200 => last.resp.decision = "Hold/Manual"

\* C3: a request that reaches the registry while the directory or an artifact
\* of its use-case is absent gets the load error and leaves the use-case out of
\* the loaded set; a request that reaches it once all artifacts are there
\* succeeds in loading, with four fresh reads if no load had succeeded before,
\* whether or not a load had failed before.
C3_FailureNotCached ==
    Reached =>
        /\ ~last.complete =>
              /\ last.resp.error = "FileNotFoundError"
              /\ last.uc \notin last.loaded
        /\ last.complete =>
              /\ last.resp.error /= "FileNotFoundError"
              /\ last.resp.error /= "KeyError"
              /\ last.uc \in last.loaded
              /\ \A m \in MapNames : last.bundle[m].oid >= 1
              /\ ~last.afterLoad => last.nreads = 4

\* C3 witness: a load of the use-case failed part-way (model.pkl was read),
\* and the request handled last, after all artifacts appeared, loaded it anew.
C3_LoadedAfterFailure ==
    /\ Reached
    /\ hist[last.uc].failed
    /\ last.complete
    /\ ~last.afterLoad
    /\ last.nreads = 4
    /\ last.bundle["models"].oid >= 2
    /\ last.uc \in registry.loaded_ucs

\* C4: each of the four maps of the registry has a use-case as a key if and
\* only if the use-case is in the loaded set.
C4_NeverPartiallyPopulated ==
    \A uc \in UCs : \A m \in MapNames :
        (uc \in DOMAIN registry[m]) <=> (uc \in registry.loaded_ucs)

\* C5: a request handled after a load of its use-case succeeded reads nothing
\* from storage and gets the bundle that load stored.
C5_NoReadAfterLoad ==
    (last.kind = "score" /\ last.afterLoad) =>
        /\ last.nreads = 0
        /\ hist[last.uc].bundles = {last.bundle}

\* C5 witness: the request handled last came after the load, reached the
\* registry and read nothing.
C5_ServedFromCache == Reached /\ last.afterLoad /\ last.nreads = 0

\* C6: in every step, a use-case that is in the loaded set stays in it and the
\* four objects the registry holds for it stay the same objects.
C6_LoadedBundleKept ==
    [][\A uc \in UCs :
          uc \in registry.loaded_ucs =>
              /\ uc \in registry'.loaded_ucs
              /\ BundleOf(registry', uc) = BundleOf(registry, uc)]_vars

\* C6 witness: requests raced on the first access of a use-case, and the one
\* handled last was a first-time request that found the use-case loaded.
C6_RacedOnLoaded ==
    /\ Reached
    /\ last.first
    /\ last.afterLoad
    /\ hist[last.uc].racers >= 2
    /\ last.uc \in registry.loaded_ucs

\* C7: when the vector of a request differs in length from the feature order
\* of its loaded use-case, the request fails with the feature-count-mismatch
\* error, its vector is the one extract built (one entry per schema feature),
\* and neither the calibrator nor the explainer is fetched or called.
C7_MismatchIsHardError ==
    (Reached /\ last.uc \in last.loaded
        /\ Len(last.features) /= Len(last.bundle["feature_orders"].names))
    => /\ last.resp.error = "ValueError: Feature count mismatch"
       /\ last.features = extract(LastRequest, schema).array
       /\ Len(last.features) = Len(schema)
       /\ Range(last.calls) \cap {"get_calibrator", "get_explainer", "predict_proba",
                                  "shap_values"} = {}

\* C7 witness: a request against a loaded use-case whose feature order has
\* another length than the schema was refused.
C7_Refused ==
    /\ Reached
    /\ last.uc \in last.loaded
    /\ Len(last.features) /= Len(TrainedFeatureOrder(last.uc))
    /\ last.resp.error = "ValueError: Feature count mismatch"

\* The three failures of a request: an artifact is absent when it is handled,
\* its vector has another length than the feature order, the calibrator raises.
LoadFailure == Reached /\ ~last.complete

ValidationFailure ==
    Reached /\ last.complete /\ Len(last.features) /= Len(TrainedFeatureOrder(last.uc))

InferenceFailure ==
    /\ Reached
    /\ last.complete
    /\ Len(last.features) = Len(TrainedFeatureOrder(last.uc))
    /\ predict_proba(last.uc, last.features).err /= None

\* C8: a request whose load, validation or inference failed, and any request
\* answered with an error, gets status 500 with the detail "Prediction failed",
\* no policy function is called for it, and its response has no band, no
\* decision and no probabilities.
C8_UniformFailure ==
    (last.kind = "score"
        /\ (LoadFailure \/ ValidationFailure \/ InferenceFailure
              \/ last.resp.error /= None \/ last.resp.status /= 200))
    => /\ last.resp.status = 500
       /\ last.resp.detail = "Prediction failed"
       /\ last.resp.error /= None
       /\ Range(last.calls) \cap PolicyNames = {}
       /\ last.resp.band = None
       /\ last.resp.decision = None
       /\ DOMAIN last.resp.probabilities = {}

\* C8 witness: the calibrator raised for a validated vector and the request
\* was answered with the failure.
C8_InferenceFailed == InferenceFailure /\ last.resp.status = 500

\* C9: for every request against a loaded use-case, the feature order of the
\* bundle is the schema order, and the vector extract built passes
\* validate_features.
C9_TrainedOrderIsSchemaOrder ==
    (Reached /\ last.uc \in last.loaded)
    => /\ last.bundle["feature_orders"].names = schema
       /\ Len(last.features) = Len(last.bundle["feature_orders"].names)
       /\ last.resp.error /= "ValueError: Feature count mismatch"

\* C10: for every attribute mapping, extract returns a vector with one entry
\* per schema feature, in schema order: the value the mapping gives the
\* feature's name as a float, and 0.0 where the mapping has no such key.
C10_ExtractFillsDefaults ==
    last.kind = "extract" =>
        /\ last.result.err = None
        /\ Len(last.result.array) = Len(schema)
        /\ \A i \in 1..Len(schema) :
              last.result.array[i] =
                  IF schema[i] \in DOMAIN last.request_data
                  THEN ToFloat(last.request_data[schema[i]])
                  ELSE FloatOf(0)

\* C11: extract never fails: for every attribute mapping, a value of None or a
\* non-numeric value for a schema feature included, it returns a vector.
C11_ExtractIsTotal ==
    last.kind = "extract" =>
        /\ last.result.err = None
        /\ Len(last.result.array) = Len(schema)

\* C12: a request that gets the bundle of its use-case gets the response and
\* the feature vector that the first request with the same attributes against
\* that bundle got, whatever was handled in between.
C12_SameRequestSameAnswer ==
    (Reached /\ last.resp.error /= "FileNotFoundError") =>
        /\ last.body \in DOMAIN hist[last.uc].answers
        /\ hist[last.uc].answers[last.body].resp = last.resp
        /\ hist[last.uc].answers[last.body].features = last.features

\* C12 witness: the request handled last repeated the attributes of an earlier
\* request against the same bundle and was answered with a decision.
C12_Repeated == Reached /\ last.repeat /\ last.resp.status = 200

\* The listed phrases the lower-cased text of the last check_guardrails call
\* contains, as positions in the list.
PhrasesIn(text) ==
    {k \in 1..Len(LEGAL_THREAT_KEYWORDS) :
        text.t = "str" /\ Contains(lower(text.s), LEGAL_THREAT_KEYWORDS[k])}

\* C13: check_guardrails on a text whose lower-cased form contains a phrase of
\* the legal-threat list returns the forced Hold/Manual decision, and its
\* reason names the matching phrase that comes first in the list.
C13_FirstListedPhraseWins ==
    last.kind = "guardrail" =>
        \A k \in PhrasesIn(last.text) :
            (\A j \in PhrasesIn(last.text) : k <= j) =>
                /\ last.result.force_decision = "Hold/Manual"
                /\ last.result.reason = "guardrail:legal_threat:"
                /\ last.result.keyword = LEGAL_THREAT_KEYWORDS[k]

\* C13 witness: "sue my lawyer", where "sue" is earlier in the text and
\* "lawyer" earlier in the list, was tagged with "lawyer".
C13_ListOrderBeatsTextOrder ==
    /\ last.kind = "guardrail"
    /\ last.text = PyStr(TwoThreatsText)
    /\ Cardinality(PhrasesIn(last.text)) = 2
    /\ last.result.keyword = LEGAL_THREAT_KEYWORDS[1]

\* C14: check_guardrails given a fields mapping without a non-empty case_id
\* (absent, None or the empty string; the empty mapping too) and a text that
\* is absent or contains no listed phrase returns the forced Hold/Manual
\* decision tagged as a missing identifier, whatever else the mapping holds.
C14_MissingIdentifierHolds ==
    (/\ last.kind = "guardrail"
     /\ last.fields.some
     /\ ~Truthy(DictGet(last.fields.map, "case_id"))
     /\ PhrasesIn(last.text) = {}) =>
        /\ last.result.force_decision = "Hold/Manual"
        /\ last.result.reason = "guardrail:missing_case_id"

\* C15: uc1_policy returns 'red' exactly when the high probability is at least
\* 0.75, otherwise 'yellow' exactly when the medium probability is at least
\* 0.40, otherwise 'green'.
C15_BandByThresholds ==
    last.kind = "uc1_policy" =>
        /\ last.result[1] = "red" <=> last.probs.high >= 7500
        /\ last.result[1] = "yellow" <=>
               (last.probs.high < 7500 /\ last.probs.medium >= 4000)
        /\ last.result[1] = "green" <=>
               (last.probs.high < 7500 /\ last.probs.medium < 4000)

\* C15 witness: a high probability of exactly 0.75 beside a medium probability
\* above its threshold came out 'red'.
C15_HighAtThresholdFirst ==
    /\ last.kind = "uc1_policy"
    /\ last.probs.high = 7500
    /\ last.probs.medium >= 4000
    /\ last.result[1] = "red"

\* The probability of the band uc1_policy returned.
MatchedProbability ==
    CASE last.result[1] = "red" -> last.probs.high
      [] last.result[1] = "yellow" -> last.probs.medium
      [] OTHER -> last.probs.low

\* C16: the score of uc1_policy is the matched band's probability times 100
\* rounded to the nearest integer, and lies in 0..100.
C16_ScoreIsRounded ==
    last.kind = "uc1_policy" =>
        /\ last.result[2] = (MatchedProbability + 50) \div 100
        /\ last.result[2] \in 0..100

\* C18: uc11_policy returns 'Work-Related' for a probability of at least 0.75,
\* 'Unclear' for one from 0.40 to 0.74, and 'Non-Work' only below 0.40: no
\* probability from 0.40 to 1 gives 'Non-Work'.
C18_NonWorkOnlyBelowUnclear ==
    last.kind = "uc11_policy" =>
        /\ last.probs.work_related >= 7500 => last.result[1] = "Work-Related"
        /\ (4000 <= last.probs.work_related /\ last.probs.work_related <= 7400) =>
               last.result[1] = "Unclear"
        /\ last.result[1] = "Non-Work" => last.probs.work_related < 4000

\* The list C19 expects for the features of the last uc4_policy call.
ExpectedMissing ==
    LET f == last.features
        absent(flag) == flag \notin DOMAIN f \/ f[flag] \in {PyNone, PyBool(FALSE)}
        severe == "injury_severity_scale" \in DOMAIN f /\ f["injury_severity_scale"].n >= 3
    IN  SelectSeq(<<"Medical certificate", "Incident report", "Imaging referral">>,
                  LAMBDA doc :
                      \/ doc = "Medical certificate" /\ absent("has_medical_cert")
                      \/ doc = "Incident report" /\ absent("has_incident_report")
                      \/ doc = "Imaging referral" /\ absent("has_imaging_referral") /\ severe)

\* C19: uc4_policy lists 'Medical certificate' exactly when has_medical_cert
\* is false, 'Incident report' exactly when has_incident_report is false and
\* 'Imaging referral' exactly when has_imaging_referral is false and the injury
\* severity is at least 3, in that order; the decision is 'Missing Critical'
\* exactly when the list is not empty and 'Complete' otherwise; the
\* probabilities play no part.
C19_MissingFromFlags ==
    last.kind = "uc4_policy" =>
        /\ last.result[2] = ExpectedMissing
        /\ last.result[1] = (IF ExpectedMissing /= <<>> THEN "Missing Critical" ELSE "Complete")
        /\ \A probs \in Uc4Probs : uc4_policy(probs, last.features) = last.result

\* C19 witness: with the two other documents present and no imaging referral
\* at severity 3, the imaging referral is the one document missing.
C19_ImagingMissingWhenSevere ==
    /\ last.kind = "uc4_policy"
    /\ DictGet(last.features, "has_medical_cert") = PyBool(TRUE)
    /\ DictGet(last.features, "has_incident_report") = PyBool(TRUE)
    /\ DictGet(last.features, "has_imaging_referral") = PyBool(FALSE)
    /\ DictGet(last.features, "injury_severity_scale") = PyInt(3)
    /\ last.result[2] = <<"Imaging referral">>
    /\ last.result[1] = "Missing Critical"

\* C17: in the three endpoints that split the negative class, the two sub-band
\* probabilities are the calibrated negative-class probability times the fixed
\* ratios (0.6 / 0.4 for case priority, 0.3 / 0.7 for compliance, 0.4 / 0.6 for
\* claim escalation), so the three reported probabilities add up to the sum of
\* the two calibrated class probabilities, which is 1.
C17_SplitKeepsTheMass ==
    (last.kind = "score" /\ last.resp.status = 200
     /\ last.uc \in {"uc_1", "uc_12", "uc_13"}) =>
        LET pr == predict_proba(last.uc, last.features)
            p == last.resp.probabilities
            hi == IF last.uc = "uc_1" THEN p.high ELSE p.high_risk
            mid == IF last.uc = "uc_1" THEN p.medium ELSE p.medium_risk
            lo == IF last.uc = "uc_1" THEN p.low ELSE p.low_risk
            ratios == CASE last.uc = "uc_1" -> <<6, 4>>
                        [] last.uc = "uc_12" -> <<3, 7>>
                        [] last.uc = "uc_13" -> <<4, 6>>
        IN  /\ hi = pr.p1 * 10
            /\ mid = pr.p0 * ratios[1]
            /\ lo = pr.p0 * ratios[2]
            /\ hi + mid + lo = (pr.p0 + pr.p1) * 10
            /\ hi + mid + lo = 10000

\* C17 witness: a compliance request was answered with a negative-class
\* probability strictly between 0 and 1, split into two positive sub-bands.
C17_ComplianceSplit ==
    /\ last.kind = "score" /\ last.uc = "uc_12" /\ last.resp.status = 200
    /\ last.resp.probabilities.high_risk > 0
    /\ last.resp.probabilities.medium_risk > 0
    /\ last.resp.probabilities.low_risk > last.resp.probabilities.medium_risk

\* C20: get_top_shap_features returns min(top_k, number of features) items in
\* order of non-increasing absolute contribution, and of two items with the
\* same absolute contribution the one earlier in the feature order comes first.
C20_TiesEarlierFeatureFirst ==
    (last.kind = "score" /\ last.resp.status = 200) =>
        LET top == last.resp.shap_top
        IN  /\ Len(top) = (IF TOP_K < Len(last.features) THEN TOP_K ELSE Len(last.features))
            /\ \A k \in 1..(Len(top) - 1) :
                   /\ Abs(top[k].shap_contribution) >= Abs(top[k + 1].shap_contribution)
                   /\ Abs(top[k].shap_contribution) = Abs(top[k + 1].shap_contribution) =>
                          top[k].index < top[k + 1].index

\* C21: uc7_policy sets the quarantine flag exactly when the fraudulent
\* probability is at least 0.80, uc8_policy exactly when the phishing
\* probability is at least 0.85, and in both the decision is 'Legitimate'
\* exactly when the flag is false.
C21_QuarantineAtThreshold ==
    /\ last.kind = "uc7_policy" =>
           /\ last.result[1] <=> last.probs.fraudulent >= 8000
           /\ last.result[2] = "Legitimate" <=> ~last.result[1]
    /\ last.kind = "uc8_policy" =>
           /\ last.result[1] <=> last.probs.phishing >= 8500
           /\ last.result[2] = "Legitimate" <=> ~last.result[1]

\* C21 witness: a fraudulent probability of exactly 0.80 was quarantined.
C21_QuarantinedAtExactly80 ==
    /\ last.kind = "uc7_policy"
    /\ last.probs.fraudulent = 8000
    /\ last.result[1]
    /\ last.result[2] = "Fraudulent"

\* 1.3 x the benchmark of the four injury types of the table, in hundredths of
\* a week.
DelayedAbove ==
    [back |-> 1040, shoulder |-> 1300, knee |-> 1560, psychological |-> 2080]

\* C22: uc9_policy returns the interval from 0.8 x weeks to 1.2 x weeks, flags
\* a delayed recovery exactly when the weeks are strictly greater than 1.3 x
\* the benchmark of the injury type (back 8, shoulder 10, knee 12,
\* psychological 16), and for weeks that are not negative the interval
\* contains the weeks.
C22_IntervalAndDelay ==
    last.kind = "uc9_policy" =>
        /\ last.result[1] = last.predicted_weeks
        /\ 10 * last.result[2] = 8 * last.predicted_weeks
        /\ 10 * last.result[3] = 12 * last.predicted_weeks
        /\ last.injury_type \in DOMAIN DelayedAbove =>
               (last.result[4] <=> last.predicted_weeks > DelayedAbove[last.injury_type])
        /\ last.predicted_weeks >= 0 =>
               (last.result[2] <= last.predicted_weeks /\ last.predicted_weeks <= last.result[3])

\* C22 witness: 15.6 weeks, exactly 1.3 x the knee benchmark, was not flagged
\* and came with the interval from 12.48 to 18.72 weeks.
C22_KneeAtBenchmarkNotDelayed ==
    /\ last.kind = "uc9_policy"
    /\ last.injury_type = "knee"
    /\ last.predicted_weeks = 1560
    /\ ~last.result[4]
    /\ last.result[2] = 1248 /\ last.result[3] = 1872

\* The probs arguments C23 tries uc12_policy on: each band of it.
Uc12Probs ==
    [high_risk : {0, 6999, 7000, 10000}, medium_risk : {0, 3999, 4000, 10000},
     low_risk : {0}]

\* C23: in the compliance endpoint the claim-scheme flag is true exactly when
\* case_id starts with "WC" or missed_appts_7d is above 2; the flag changes
\* the recommendation only, and only in the 'High Risk' band; band, entitlement
\* flag and evidence list do not depend on it; the entitlement flag is true,
\* with a non-empty evidence list, exactly in the 'High Risk' band.
C23_FlagOnlyChangesHighRiskText ==
    last.kind = "compliance" =>
        /\ last.is_workcover <=>
               \/ /\ Len(last.request_dict["case_id"].s) >= 2
                  /\ last.request_dict["case_id"].s[1] = "W"
                  /\ last.request_dict["case_id"].s[2] = "C"
               \/ last.request_dict["missed_appts_7d"].n > 2
        /\ \A probs \in Uc12Probs \cup {last.probs} :
               /\ uc12_policy(probs, TRUE)[1] = uc12_policy(probs, FALSE)[1]
               /\ uc12_policy(probs, TRUE)[2] = uc12_policy(probs, FALSE)[2]
               /\ uc12_policy(probs, TRUE)[3] = uc12_policy(probs, FALSE)[3]
               /\ uc12_policy(probs, TRUE)[4] /= uc12_policy(probs, FALSE)[4] <=>
                      uc12_policy(probs, TRUE)[1] = "High Risk"
        /\ last.result[2] <=> last.result[1] = "High Risk"
        /\ last.result[2] <=> last.result[3] /= <<>>

\* C23 witness: a request whose identifier does not start with "WC" but has 3
\* missed appointments was flagged and, in the 'High Risk' band, got the
\* insurer recommendation.
C23_FlaggedByMissedAppointments ==
    /\ last.kind = "compliance"
    /\ last.request_dict["case_id"] = PyStr(<<"C", "1">>)
    /\ last.request_dict["missed_appts_7d"] = PyInt(3)
    /\ last.is_workcover
    /\ last.result[1] = "High Risk"
    /\ last.result[4] = "Flag entitlement at risk; prepare evidence for insurer"

\* C24: in the compliance endpoint, where medium_risk is 0.3 x (1 - high_risk)
\* and the thresholds are 0.70 and 0.40, no calibrated pair that sums to 1
\* gives the 'Medium Risk' band: the band is 'High Risk' or 'Compliant'.
C24_NoMediumRiskInCompliance ==
    last.kind = "compliance" =>
        /\ last.probs.high_risk = 10 * last.p1
        /\ last.probs.medium_risk = 3 * (1000 - last.p1)
        /\ last.result[1] \in {"High Risk", "Compliant"}
        /\ last.result[1] = "High Risk" <=> last.p1 >= 700

\* C24 witness: with the positive class at 0, where medium_risk is largest
\* (0.3), the band was 'Compliant'.
C24_CompliantAtLargestMedium ==
    /\ last.kind = "compliance"
    /\ last.p1 = 0
    /\ last.probs.medium_risk = 3000
    /\ last.result[1] = "Compliant"

\* C25: in the claim-escalation endpoint, where medium_risk is
\* 0.4 x (1 - high_risk) and the medium threshold is 0.40, the band is 'Medium
\* Risk' only when the calibrated positive-class probability is exactly 0, and
\* 'Low Risk' for every positive-class probability above 0 and below 0.70.
C25_MediumRiskOnlyAtZero ==
    last.kind = "claim_escalation" =>
        /\ last.probs.medium_risk = 4 * (1000 - last.p1)
        /\ last.result[1] = "Medium Risk" => last.p1 = 0
        /\ (0 < last.p1 /\ last.p1 < 700) => last.result[1] = "Low Risk"

\* C25 witness: a positive-class probability of 0.001 was banded 'Low Risk'
\* although 0 is banded 'Medium Risk'.
C25_LowRiskJustAboveZero ==
    /\ last.kind = "claim_escalation"
    /\ last.p1 = 1
    /\ last.result[1] = "Low Risk"
    /\ uc13_policy(ClaimEscalationProbs(1000, 0))[1] = "Medium Risk"

\* C26: in the case-priority endpoint, where medium is 0.6 x (1 - high), the
\* band is not monotone in the calibrated high probability: 'yellow' only when
\* high is at most 1/3, 'green' for every high above 1/3 and below 0.75, 'red'
\* from 0.75 on, and 'yellow' does come out at a high probability of 0.
C26_BandNotMonotone ==
    last.kind = "case_priority" =>
        /\ last.probs.medium = 6 * (1000 - last.p1)
        /\ last.result[1] = "yellow" => 3 * last.p1 <= 1000
        /\ (3 * last.p1 > 1000 /\ last.p1 < 750) => last.result[1] = "green"
        /\ last.p1 >= 750 => last.result[1] = "red"
        /\ last.p1 = 0 => last.result[1] = "yellow"

\* C26 witness: a high probability of 0.334 was banded 'green' while the
\* smaller 0.333 is banded 'yellow'.
C26_GreenAboveYellow ==
    /\ last.kind = "case_priority"
    /\ last.p1 = 334
    /\ last.result[1] = "green"
    /\ uc1_policy(CasePriorityProbs(667, 333))[1] = "yellow"

\* C27: when both guardrail rules apply in one check_guardrails call (the text
\* contains a legal-threat phrase and fields has no non-empty case_id), the
\* call returns the legal-threat result, one result only, and nothing of the
\* missing-identifier rule.
C27_LegalThreatBeforeMissingId ==
    (/\ last.kind = "guardrail"
     /\ PhrasesIn(last.text) /= {}
     /\ last.fields.some
     /\ ~Truthy(DictGet(last.fields.map, "case_id"))) =>
        /\ last.result.force_decision = "Hold/Manual"
        /\ last.result.reason = "guardrail:legal_threat:"
        /\ last.result.keyword \in {LEGAL_THREAT_KEYWORDS[k] : k \in PhrasesIn(last.text)}
        /\ last.result.recommendation =
               "Legal threat detected - requires immediate manual review"

\* C27 witness: "my LAWYER" with a fields mapping whose case_id is the empty
\* string came back as a legal threat.
C27_ThreatWithEmptyCaseId ==
    /\ last.kind = "guardrail"
    /\ last.text = PyStr(ThreatText)
    /\ last.fields = Fields([case_id |-> PyStr(<<>>)])
    /\ last.result.reason = "guardrail:legal_threat:"

====
